---- MODULE Spec2Model ----
(***************************************************************************)
(* pycontainer (src/main.py): a minimal container runner.                  *)
(*                                                                         *)
(* Container.run() creates a cgroup v2 directory, builds a temporary       *)
(* rootfs, writes its own pid into cgroup.procs, launches                  *)
(* `unshare ... chroot rootfs command`, waits for it and, in a finally     *)
(* clause, removes the cgroup directory and the rootfs.                    *)
(*                                                                         *)
(* The model keeps the host state the code touches (the cgroup            *)
(* filesystem, kernel cgroup membership, the temporary directories, the   *)
(* busybox/bash binaries of the host) and, per Container.run() call, the   *)
(* position in run() and the fields of the objects it owns.               *)
(***************************************************************************)
EXTENDS Integers, Sequences, FiniteSets, TLC

\* ------------------------------------------------------------------ bounds
\* Number of Container.run() calls in a behaviour.
MaxInst == 2
\* Number of operating-system processes that call Container.run().
MaxPid == 2

Insts == 1..MaxInst
Pids == 1..MaxPid

\* ------------------------------------------------------- program constants
\* ContainerConfig of demo_interactive, demo_command and demo_memory_limit
\* (python3 is True when shutil.which finds python3 on the host, line 250).
demo_interactive_config ==
  [name |-> "demo", memory_mb |-> 50, cpu_percent |-> 25, command |-> "/bin/sh"]
demo_command_config ==
  [name |-> "cmd_demo", memory_mb |-> 30, cpu_percent |-> 20,
   command |-> "/bin/sh -c \"echo Hello from container! && ls -la / && sleep 1\""]
demo_memory_limit_config(python3) ==
  [name |-> "mem_test", memory_mb |-> 20, cpu_percent |-> 50,
   command |-> IF python3 THEN "/usr/bin/python3 -c '<memory_hog>'"
               ELSE "/bin/sh -c \"echo Testing memory limit... && sleep 1\""]

\* The configurations callers of Container.run() use: a command that is a
\* path of the rootfs, and a command line with arguments.
Configs == { demo_interactive_config, demo_command_config }

Names == { c.name : c \in Configs }

\* RootFSManager._setup_busybox: the ordered host search locations.
busybox_paths == << "/usr/bin/busybox", "/bin/busybox", "/usr/bin/busybox-static" >>
\* RootFSManager._copy_bash: the optional shell.
bash_path == "/usr/bin/bash"
\* RootFSManager.create: the directory skeleton.
skeleton == { "bin", "lib", "lib64", "proc", "tmp", "dev", "etc" }
\* RootFSManager._setup_busybox: the command aliases.
commands == { "sh", "ls", "cat", "echo", "ps", "sleep", "mkdir", "rm", "cp", "mv" }

HostPaths == { busybox_paths[k] : k \in 1..Len(busybox_paths) } \cup { bash_path }

\* The hosts considered: no busybox at any search location, busybox at one
\* location and no bash, busybox at two locations together with bash.
HostImages ==
  { {},
    { "/bin/busybox" },
    { "/usr/bin/busybox", "/bin/busybox", bash_path } }

\* Exit statuses of the launched process: clean exit, command not found
\* inside the rootfs, killed by the OOM killer.
ExitCodes == { 0, 127, 137 }

\* self.rootfs = None
None == 0
\* No value returned (yet).
NoValue == -1
\* The cgroup every process starts in.
RootCg == "/"

VARIABLES
  hostFiles,    \* which of HostPaths exist on the host
  cgroupfs,     \* /sys/fs/cgroup: name -> the files of the group directory
  procCg,       \* kernel: pid -> the cgroup the process is a member of
  alive,        \* kernel: pid -> the process has not exited
  tmpfs,        \* temporary directories: dir id -> how far create() filled it
  nextDir,      \* mkdtemp's supply of unused names
  pc,           \* instance -> position in Container.run()
  config,       \* instance -> self.config
  pid,          \* instance -> os.getpid() of the caller
  self_rootfs,  \* instance -> RootFSManager.rootfs (None or a dir id)
  exc,          \* instance -> exception caught by run()'s except clauses
  status,       \* instance -> subprocess.run(cmd).returncode
  ret,          \* instance -> value run() returns
  raised,       \* instance -> exception that left the last call uncaught
  child,        \* instance -> launched process: none / running / exited
  childCg,      \* instance -> cgroup the launched process was forked in
  log,          \* instance -> the manager calls made so far, with outcome
  adoptedFrom,  \* instance -> creator of a group that create() found existing
  main_pc,      \* position of the process in main(), "none" without main()
  euid,         \* os.geteuid() of the process in main()
  argv,         \* sys.argv of the process in main()
  exit_code     \* exit status of the process that ran main()

hostVars == << hostFiles, cgroupfs, procCg, alive, tmpfs, nextDir >>
instVars == << pc, config, pid, self_rootfs, exc, status, ret, raised,
               child, childCg, log, adoptedFrom >>
mainVars == << main_pc, euid, argv, exit_code >>
vars == << hostFiles, cgroupfs, procCg, alive, tmpfs, nextDir,
           pc, config, pid, self_rootfs, exc, status, ret, raised,
           child, childCg, log, adoptedFrom, main_pc, euid, argv, exit_code >>

\* ------------------------------------------------------------ conversions
Digit(d) ==
  CASE d = 0 -> "0" [] d = 1 -> "1" [] d = 2 -> "2" [] d = 3 -> "3"
    [] d = 4 -> "4" [] d = 5 -> "5" [] d = 6 -> "6" [] d = 7 -> "7"
    [] d = 8 -> "8" [] d = 9 -> "9"

RECURSIVE str(_)
\* Python's str() of an int: decimal digits, a leading "-" when negative.
\* A text is the sequence of its characters.
str(n) ==
  IF n < 0 THEN << "-" >> \o str(0 - n)
  ELSE IF n < 10 THEN << Digit(n) >>
  ELSE Append(str(n \div 10), Digit(n % 10))

\* Variant of memory_max_text: megabytes taken as 10^6 bytes.
memory_max_text_decimal(memory_mb) == str(memory_mb * 1000 * 1000)

\* Variant of cpu_max_text: the quota written in units of 100 microseconds.
cpu_max_text_coarse(cpu_percent) ==
  str(cpu_percent * 10) \o << " ", "1", "0", "0", "0", "0", "0" >>

\* CGroupManager.create, line 36: the text written to memory.max.
memory_max_text(memory_mb) == str(memory_mb * 1024 * 1024)
\* CGroupManager.create, line 37: the text written to cpu.max.
cpu_max_text(cpu_percent) ==
  str(cpu_percent * 1000) \o << " ", "1", "0", "0", "0", "0", "0" >>

\* A cgroup v2 directory right after mkdir; creator records whose mkdir made it.
NewGroup(i) ==
  [ memory_max |-> << "m", "a", "x" >>,
    cpu_max |-> << "m", "a", "x", " ", "1", "0", "0", "0", "0", "0" >>,
    creator |-> i ]

\* ------------------------------------------------------------ host helpers
Active(i) == pc[i] \notin { "idle", "done", "api" }

\* Processes the kernel counts as members of group n.
Members(n) == { p \in Pids : alive[p] /\ procCg[p] = n }
Children(n) == { i \in Insts : child[i] = "running" /\ childCg[i] = n }

\* Path.rmdir() on /sys/fs/cgroup/<n>.
rmdir_result(n) ==
  IF n \notin DOMAIN cgroupfs THEN "FileNotFoundError"
  ELSE IF Members(n) # {} \/ Children(n) # {} THEN "OSError"
  ELSE "ok"

\* Variant of cleanup_catches: rmdir without the try block.
cleanup_catches_nothing(err) == FALSE

\* Variant of cleanup_catches: `except FileNotFoundError: pass`.
cleanup_catches_only_missing(err) == err = "FileNotFoundError"

\* CGroupManager.cleanup: `except OSError: pass`
\* (FileNotFoundError is a subclass of OSError).
cleanup_catches(err) == err \in { "OSError", "FileNotFoundError" }

\* RootFSManager.cleanup: `if self.rootfs and self.rootfs.exists()`.
rootfs_cleanup_guard(i) == self_rootfs[i] # None /\ self_rootfs[i] \in DOMAIN tmpfs

\* shutil.rmtree(d).
rmtree_result(d) == IF d \in DOMAIN tmpfs THEN "ok" ELSE "FileNotFoundError"

\* Variant of except_return: one except clause for everything, returning 1.
except_return_generic(e) == 1

\* Container.run: the value each except clause returns.
except_return(e) == IF e = "KeyboardInterrupt" THEN 130 ELSE 1

\* RootFSManager._setup_busybox: the first search location that exists,
\* or "" (busybox_src = None).
RECURSIVE find_busybox(_)
find_busybox(k) ==
  IF k > Len(busybox_paths) THEN ""
  ELSE IF busybox_paths[k] \in hostFiles THEN busybox_paths[k]
  ELSE find_busybox(k + 1)

busybox_src == find_busybox(1)

Restrict(f, S) == [ x \in S |-> f[x] ]

\* The ghost call log: inside run() every call of the run is kept, in order;
\* a manager used on its own keeps its most recent call only.
Logged(i, op) ==
  log' = [log EXCEPT ![i] = IF pc[i] = "api" THEN << op >> ELSE Append(@, op)]

Last(s) == s[Len(s)]

\* ------------------------------------------------------- CGroupManager
\* CGroupManager.create(memory_mb, cpu_percent).  prog counts the file
\* operations that completed (mkdir, memory.max, cpu.max); e is how the call
\* ended: "none", a failure of the next operation, or an interruption before
\* it.  (An interruption after the last operation of a call is the
\* interruption before the first operation of the next step of run().)
create_outcomes(n) ==
  { << 3, "none" >> }
  \cup { << p, "KeyboardInterrupt" >> : p \in 0..1 }
  \cup { << p, "OSError" >> : p \in 1..2 }
  \cup ( IF n \in DOMAIN cgroupfs THEN {} ELSE { << 0, "OSError" >> } )

CGroupManager_create(i, prog, e) ==
  LET n  == config[i].name
      g0 == IF n \in DOMAIN cgroupfs THEN cgroupfs[n] ELSE NewGroup(i)
      g1 == IF prog >= 2
              THEN [g0 EXCEPT !.memory_max = memory_max_text(config[i].memory_mb)]
              ELSE g0
      g2 == IF prog >= 3
              THEN [g1 EXCEPT !.cpu_max = cpu_max_text(config[i].cpu_percent)]
              ELSE g1
  IN  /\ << prog, e >> \in create_outcomes(n)
      /\ cgroupfs' = IF prog = 0 THEN cgroupfs ELSE (n :> g2) @@ cgroupfs
      /\ adoptedFrom' = IF prog >= 1 /\ n \in DOMAIN cgroupfs
                          THEN [adoptedFrom EXCEPT ![i] = cgroupfs[n].creator]
                          ELSE adoptedFrom
      /\ Logged(i, "cgroup.create")
      /\ UNCHANGED << hostFiles, procCg, alive, tmpfs, nextDir, self_rootfs >>

\* CGroupManager.add_process(pid): writing the pid to cgroup.procs makes the
\* kernel move the process into this group, out of the one it was in.
add_process_outcomes(n) ==
  { << 0, "OSError" >>, << 0, "KeyboardInterrupt" >> }
  \cup ( IF n \in DOMAIN cgroupfs
           THEN { << 1, "none" >> } ELSE {} )

CGroupManager_add_process(i, prog, e) ==
  LET n == config[i].name
  IN  /\ << prog, e >> \in add_process_outcomes(n)
      /\ procCg' = IF prog = 1 THEN [procCg EXCEPT ![pid[i]] = n] ELSE procCg
      /\ Logged(i, "cgroup.add_process")
      /\ UNCHANGED << hostFiles, cgroupfs, alive, tmpfs, nextDir,
                      self_rootfs, adoptedFrom >>

\* CGroupManager.cleanup(): rmdir, OSError swallowed.  e is the exception
\* that leaves the call.
CGroupManager_cleanup(i, e) ==
  LET n == config[i].name
      r == rmdir_result(n)
  IN  /\ e = ( IF r = "ok" \/ cleanup_catches(r) THEN "none" ELSE r )
      /\ cgroupfs' = IF r = "ok" THEN Restrict(cgroupfs, DOMAIN cgroupfs \ {n})
                     ELSE cgroupfs
      /\ Logged(i, "cgroup.cleanup")
      /\ UNCHANGED << hostFiles, procCg, alive, tmpfs, nextDir,
                      self_rootfs, adoptedFrom >>

\* ------------------------------------------------------- RootFSManager
\* Entries of a rootfs directory: path -> directory, regular file, or
\* symbolic link with its target (relative to the link's directory).
Dir == [ kind |-> "dir" ]
File == [ kind |-> "file" ]
Symlink(target) == [ kind |-> "symlink", to |-> target ]

SkeletonEntries == [ d \in skeleton |-> Dir ]

\* Variant of BusyboxEntries: the links point at the host's busybox.
BusyboxEntries_host_links ==
  [ f \in { "bin/busybox" } \cup { "bin/" \o c : c \in commands } |->
      IF f = "bin/busybox" THEN File ELSE Symlink(busybox_src) ]

\* _setup_busybox, lines 92-101: the copy of busybox and, for each command,
\* link.symlink_to('busybox').
BusyboxEntries ==
  [ f \in { "bin/busybox" } \cup { "bin/" \o c : c \in commands } |->
      IF f = "bin/busybox" THEN File ELSE Symlink("busybox") ]
BashEntry == [ f \in { "bin/bash" } |-> File ]
BashLibs == [ f \in { "lib/<libraries of bash>" } |-> File ]

\* The entries of the new directory after prog stages of create(); an entry
\* that exists is kept by the later stages (mkdir(exist_ok=True), `if not
\* link.exists()`, `if not dst.exists()`):
\* 1 mkdtemp returned, 2 self.rootfs assigned, 3 skeleton made,
\* 4 _setup_busybox done, 5 _copy_bash copied the shell,
\* 6 _copy_bash copied the libraries ldd listed, if any (create complete).
rootfs_entries(prog) ==
  LET bash == bash_path \in hostFiles
  IN  ( IF prog >= 3 THEN SkeletonEntries ELSE << >> )
      @@ ( IF prog >= 4 THEN BusyboxEntries ELSE << >> )
      @@ ( IF prog >= 5 /\ bash THEN BashEntry ELSE << >> )
      @@ ( IF prog >= 6 /\ bash THEN BashLibs ELSE << >> )

\* The entries of temporary directory d.
Entries(d) == rootfs_entries(tmpfs[d])

\* Container.run, lines 177-189: the argument vector of the launch.
\* config.command is one element of it, whatever the string contains.
launch_cmd(rootfs, command) ==
  << "unshare", "--fork", "--pid", "--net", "--mount", "--uts", "--ipc",
     "--mount-proc", "chroot", rootfs, command >>

\* The program `chroot NEWROOT COMMAND` executes: the element after NEWROOT.
chroot_program(cmd) ==
  cmd[(CHOOSE k \in 1..Len(cmd) : cmd[k] = "chroot") + 2]

\* Path prog names an executable entry of directory d.
Resolves(d, prog) ==
  \E f \in DOMAIN Entries(d) : Entries(d)[f].kind # "dir" /\ "/" \o f = prog

\* Variant of exit_statuses: the command is taken to start whatever it names.
exit_statuses_any(cmd) == ExitCodes

\* The statuses the launch can end with: chroot reports a program it cannot
\* find with 127; a program that started ends with a status of its own.
exit_statuses(cmd) ==
  LET d == cmd[Len(cmd) - 1]
  IN  IF d \in DOMAIN tmpfs /\ Resolves(d, chroot_program(cmd))
        THEN ExitCodes ELSE { 127 }

\* Variant of rootfs_create_ends: the result of _setup_busybox is ignored, so
\* create() goes on without a busybox.
rootfs_create_ends_unchecked(prog, e) ==
  LET bb   == busybox_src # ""
      bash == bash_path \in hostFiles
  IN  CASE prog = 0 -> e \in { "OSError", "KeyboardInterrupt" }
        [] prog = 1 -> e = "KeyboardInterrupt"
        [] prog = 2 -> e \in { "OSError", "KeyboardInterrupt" }
        [] prog = 3 -> bb /\ e = "OSError"
        [] prog = 4 -> bash /\ e = "OSError"
        [] prog = 5 -> bash /\ e \in { "OSError", "FileNotFoundError" }
        [] prog = 6 -> e = "none"

\* How RootFSManager.create() can end after prog stages.  A system call of
\* the next stage fails (OSError); without a busybox on the host
\* _setup_busybox returns False and create raises RuntimeError; with
\* /usr/bin/bash on the host a failing copy or a missing ldd raises out of
\* _copy_bash (only CalledProcessError is caught there), while an ldd that
\* runs and lists nothing lets create() complete (stage 6, nothing more to
\* copy); the user interrupts
\* before mkdtemp, between mkdtemp's return and the assignment to
\* self.rootfs, or after the assignment.
rootfs_create_ends(prog, e) ==
  LET bb   == busybox_src # ""
      bash == bash_path \in hostFiles
  IN  CASE prog = 0 -> e \in { "OSError", "KeyboardInterrupt" }
        [] prog = 1 -> e = "KeyboardInterrupt"
        [] prog = 2 -> e \in { "OSError", "KeyboardInterrupt" }
        [] prog = 3 -> e = ( IF bb THEN "OSError" ELSE "RuntimeError" )
        [] prog = 4 -> bb /\ bash /\ e = "OSError"
        [] prog = 5 -> bb /\ bash /\ e \in { "OSError", "FileNotFoundError" }
        [] prog = 6 -> bb /\ e = "none"

RootFSManager_create(i, prog, e) ==
  /\ rootfs_create_ends(prog, e)
  /\ tmpfs' = IF prog >= 1 THEN (nextDir :> prog) @@ tmpfs
              ELSE tmpfs
  /\ nextDir' = IF prog >= 1 THEN nextDir + 1 ELSE nextDir
  /\ self_rootfs' = IF prog >= 2 THEN [self_rootfs EXCEPT ![i] = nextDir]
                    ELSE self_rootfs
  /\ Logged(i, "rootfs.create")
  /\ UNCHANGED << hostFiles, cgroupfs, procCg, alive, adoptedFrom >>

\* RootFSManager.cleanup(): rmtree when self.rootfs is set and exists.
RootFSManager_cleanup(i, e) ==
  LET go == rootfs_cleanup_guard(i)
      r  == IF go THEN rmtree_result(self_rootfs[i]) ELSE "skip"
  IN  /\ e = ( IF r \in { "ok", "skip" } THEN "none" ELSE r )
      /\ tmpfs' = IF r = "ok" THEN Restrict(tmpfs, DOMAIN tmpfs \ { self_rootfs[i] })
                  ELSE tmpfs
      /\ Logged(i, "rootfs.cleanup")
      /\ UNCHANGED << hostFiles, cgroupfs, procCg, alive, nextDir,
                      self_rootfs, adoptedFrom >>

\* ------------------------------------------------------------ Container
Outcomes == { "none", "OSError", "RuntimeError", "FileNotFoundError",
              "KeyboardInterrupt" }

\* Variant of finally_target: the cleanup sits at the end of the try block and
\* of the `except Exception` clause, not in a finally clause, so an
\* interruption returns without it.
finally_target_not_on_interrupt(e) ==
  IF e = "KeyboardInterrupt" THEN "done" ELSE "cleanup_cg"

\* Container.run: where control goes when a step of the try block raises e
\* (the except clause, then the finally clause).
finally_target(e) == "cleanup_cg"

\* Variant of RunStep: the failure of a step is swallowed and the run goes on.
RunStep_swallow(i, e, nxt) ==
  /\ pc' = [pc EXCEPT ![i] = nxt]
  /\ exc' = exc
  /\ ret' = ret
  /\ UNCHANGED << config, pid, status, raised, child, childCg, mainVars >>

\* Container.run: a step of the try block ended with e.  With "none" the run
\* goes on to nxt; otherwise the matching except clause sets the return value
\* and the finally clause runs.
RunStep(i, e, nxt) ==
  /\ pc' = [pc EXCEPT ![i] = IF e = "none" THEN nxt ELSE finally_target(e)]
  /\ exc' = [exc EXCEPT ![i] = e]
  /\ ret' = [ret EXCEPT ![i] = IF e = "none" THEN @ ELSE except_return(e)]
  /\ UNCHANGED << config, pid, status, raised, child, childCg, mainVars >>

\* The processes that have called run(); processes are numbered in the
\* order of their first call.
Callers == { pid[j] : j \in { k \in Insts : pc[k] # "idle" } }
FirstNewPid == Cardinality(Callers) + 1

\* Container(config).run() is called by process p.  One process runs one
\* run() at a time (the program has no threads), and a name is used by one
\* running container at a time.
Start(i, c, p) ==
  /\ pc[i] = "idle"
  /\ \A j \in Insts : j < i => pc[j] # "idle"
  /\ alive[p]
  /\ p \in Callers \cup { FirstNewPid }
  /\ \A j \in Insts : Active(j) => pid[j] # p /\ config[j].name # c.name
  /\ pc' = [pc EXCEPT ![i] = "cg_create"]
  /\ config' = [config EXCEPT ![i] = c]
  /\ pid' = [pid EXCEPT ![i] = p]
  /\ UNCHANGED << hostVars, self_rootfs, exc, status, ret, raised, child,
                  childCg, log, adoptedFrom, mainVars >>

\* line 168: self.cgroup.create(...)
Run_cgroup_create(i) ==
  /\ pc[i] = "cg_create"
  /\ \E prog \in 0..3, e \in Outcomes :
       CGroupManager_create(i, prog, e) /\ RunStep(i, e, "rootfs_create")

\* line 169: rootfs = self.rootfs_mgr.create()
Run_rootfs_create(i) ==
  /\ pc[i] = "rootfs_create"
  /\ \E prog \in 0..6, e \in Outcomes :
       RootFSManager_create(i, prog, e) /\ RunStep(i, e, "add_process")

\* line 174: self.cgroup.add_process(os.getpid())
Run_add_process(i) ==
  /\ pc[i] = "add_process"
  /\ \E prog \in 0..1, e \in Outcomes :
       CGroupManager_add_process(i, prog, e) /\ RunStep(i, e, "launch")

\* line 191, first half: subprocess.run starts `unshare ... chroot ...`.
\* The new process is forked in the cgroup its parent is in at that moment.
Run_launch(i) ==
  /\ pc[i] = "launch"
  /\ \E e \in { "none", "FileNotFoundError", "KeyboardInterrupt" } :
       /\ pc' = [pc EXCEPT ![i] = IF e = "none" THEN "wait" ELSE finally_target(e)]
       /\ exc' = [exc EXCEPT ![i] = e]
       /\ ret' = [ret EXCEPT ![i] = IF e = "none" THEN @ ELSE except_return(e)]
       /\ child' = [child EXCEPT ![i] = IF e = "none" THEN "running" ELSE @]
       /\ childCg' = [childCg EXCEPT ![i] = IF e = "none" THEN procCg[pid[i]] ELSE @]
       /\ Logged(i, "launch")
  /\ UNCHANGED << hostVars, config, pid, self_rootfs, status, raised,
                  adoptedFrom, mainVars >>

\* line 191, second half, and line 192: subprocess.run waits; the process
\* ends with status s and run() returns it, or the wait is interrupted
\* (subprocess.run kills the process and re-raises).
Run_wait(i) ==
  /\ pc[i] = "wait"
  /\ \/ \E s \in exit_statuses(launch_cmd(self_rootfs[i], config[i].command)) :
          /\ status' = [status EXCEPT ![i] = s]
          /\ ret' = [ret EXCEPT ![i] = s]
          /\ exc' = exc
          /\ pc' = [pc EXCEPT ![i] = "cleanup_cg"]
          /\ Logged(i, "wait")
     \/ /\ status' = status
        /\ ret' = [ret EXCEPT ![i] = except_return("KeyboardInterrupt")]
        /\ exc' = [exc EXCEPT ![i] = "KeyboardInterrupt"]
        /\ pc' = [pc EXCEPT ![i] = finally_target("KeyboardInterrupt")]
        /\ Logged(i, "wait")
  /\ child' = [child EXCEPT ![i] = "exited"]
  /\ UNCHANGED << hostVars, config, pid, self_rootfs, raised, childCg,
                  adoptedFrom, mainVars >>

\* Container._cleanup, line 208, reached from the finally clause.  An
\* exception leaving the call leaves _cleanup and run() and replaces the
\* pending return value.
Run_cleanup_cgroup(i) ==
  /\ pc[i] = "cleanup_cg"
  /\ \E e \in Outcomes :
       /\ CGroupManager_cleanup(i, e)
       /\ pc' = [pc EXCEPT ![i] = IF e = "none" THEN "cleanup_rootfs" ELSE "done"]
       /\ raised' = [raised EXCEPT ![i] = e]
       /\ ret' = [ret EXCEPT ![i] = IF e = "none" THEN @ ELSE NoValue]
  /\ UNCHANGED << config, pid, exc, status, child, childCg, mainVars >>

\* Container._cleanup, line 209; then run() returns.
Run_cleanup_rootfs(i) ==
  /\ pc[i] = "cleanup_rootfs"
  /\ \E e \in Outcomes :
       /\ RootFSManager_cleanup(i, e)
       /\ pc' = [pc EXCEPT ![i] = "done"]
       /\ raised' = [raised EXCEPT ![i] = e]
       /\ ret' = [ret EXCEPT ![i] = IF e = "none" THEN @ ELSE NoValue]
  /\ UNCHANGED << config, pid, exc, status, child, childCg, mainVars >>

\* A process that is not inside run() exits; the kernel drops its cgroup
\* membership.  (The exit of a process that is in no container group changes
\* nothing a later run can observe and is left out.)
ProcessExit(p) ==
  /\ alive[p]
  /\ procCg[p] # RootCg
  /\ \A j \in Insts : Active(j) => pid[j] # p
  /\ alive' = [alive EXCEPT ![p] = FALSE]
  /\ UNCHANGED << hostFiles, cgroupfs, procCg, tmpfs, nextDir, instVars,
                  mainVars >>

\* Container and its managers used as a library: no main() is running.
NoMain ==
  /\ main_pc = "none"
  /\ euid = 0
  /\ argv = << "container.py" >>
  /\ exit_code = NoValue

Init ==
  /\ hostFiles \in HostImages
  /\ cgroupfs = << >>
  /\ procCg = [ p \in Pids |-> RootCg ]
  /\ alive = [ p \in Pids |-> TRUE ]
  /\ tmpfs = << >>
  /\ nextDir = 1
  /\ pc = [ i \in Insts |-> "idle" ]
  /\ config = [ i \in Insts |-> demo_interactive_config ]
  /\ pid = [ i \in Insts |-> 1 ]
  /\ self_rootfs = [ i \in Insts |-> None ]
  /\ exc = [ i \in Insts |-> "none" ]
  /\ status = [ i \in Insts |-> NoValue ]
  /\ ret = [ i \in Insts |-> NoValue ]
  /\ raised = [ i \in Insts |-> "none" ]
  /\ child = [ i \in Insts |-> "none" ]
  /\ childCg = [ i \in Insts |-> RootCg ]
  /\ log = [ i \in Insts |-> << >> ]
  /\ adoptedFrom = [ i \in Insts |-> 0 ]
  /\ NoMain

\* The steps of one run() after its call.
RunSteps(i) ==
  \/ Run_cgroup_create(i)
  \/ Run_rootfs_create(i)
  \/ Run_add_process(i)
  \/ Run_launch(i)
  \/ Run_wait(i)
  \/ Run_cleanup_cgroup(i)
  \/ Run_cleanup_rootfs(i)

Next ==
  \/ \E i \in Insts, c \in Configs, p \in Pids : Start(i, c, p)
  \/ \E i \in Insts : RunSteps(i)
  \/ \E p \in Pids : ProcessExit(p)

Spec == Init /\ [][Next]_vars

\* Every call run() makes returns: the file operations are finite, and the
\* wait on the launched process ends when the process terminates or the user
\* interrupts it (run() has no timeout of its own).
FairSpec == Spec /\ \A i \in Insts : WF_vars(RunSteps(i))

\* ------------------------------------------------ the managers on their own
\* A caller that uses one CGroupManager and one RootFSManager directly,
\* calling their methods in any order.
MaxDir == 2

ApiReturn(i, e) ==
  /\ raised' = [raised EXCEPT ![i] = e]
  /\ UNCHANGED << pc, config, pid, exc, status, ret, child, childCg, mainVars >>

Api_cgroup_create(i) ==
  /\ pc[i] = "api"
  /\ \E prog \in 0..3, e \in Outcomes : CGroupManager_create(i, prog, e) /\ ApiReturn(i, e)

Api_add_process(i) ==
  /\ pc[i] = "api"
  /\ \E prog \in 0..1, e \in Outcomes :
       CGroupManager_add_process(i, prog, e) /\ ApiReturn(i, e)

Api_cgroup_cleanup(i) ==
  /\ pc[i] = "api"
  /\ \E e \in Outcomes : CGroupManager_cleanup(i, e) /\ ApiReturn(i, e)

Api_rootfs_create(i) ==
  /\ pc[i] = "api"
  /\ nextDir <= MaxDir
  /\ \E prog \in 0..6, e \in Outcomes : RootFSManager_create(i, prog, e) /\ ApiReturn(i, e)

Api_rootfs_cleanup(i) ==
  /\ pc[i] = "api"
  /\ \E e \in Outcomes : RootFSManager_cleanup(i, e) /\ ApiReturn(i, e)

ApiInit ==
  /\ hostFiles \in HostImages
  /\ cgroupfs = << >>
  /\ procCg = [ p \in Pids |-> RootCg ]
  /\ alive = [ p \in Pids |-> TRUE ]
  /\ tmpfs = << >>
  /\ nextDir = 1
  /\ pc = [ i \in Insts |-> IF i = 1 THEN "api" ELSE "idle" ]
  /\ config \in [ Insts -> Configs ]
  /\ \A i \in Insts : i > 1 => config[i] = config[1]
  /\ pid = [ i \in Insts |-> 1 ]
  /\ self_rootfs = [ i \in Insts |-> None ]
  /\ exc = [ i \in Insts |-> "none" ]
  /\ status = [ i \in Insts |-> NoValue ]
  /\ ret = [ i \in Insts |-> NoValue ]
  /\ raised = [ i \in Insts |-> "none" ]
  /\ child = [ i \in Insts |-> "none" ]
  /\ childCg = [ i \in Insts |-> RootCg ]
  /\ log = [ i \in Insts |-> << >> ]
  /\ adoptedFrom = [ i \in Insts |-> 0 ]
  /\ NoMain

ApiNext ==
  \E i \in Insts :
    \/ Api_cgroup_create(i)
    \/ Api_add_process(i)
    \/ Api_cgroup_cleanup(i)
    \/ Api_rootfs_create(i)
    \/ Api_rootfs_cleanup(i)

ApiSpec == ApiInit /\ [][ApiNext]_vars

\* ------------------------------------------------------------------ main()
\* One process runs `container.py [selector]`; its Container is the first
\* instance, and the process is the first pid.
main_inst == CHOOSE i \in Insts : \A j \in Insts : i <= j
main_pid == CHOOSE p \in Pids : \A q \in Pids : p <= q

\* Effective user ids of the caller: root and an ordinary user.
Euids == { 0, 1000 }
\* sys.argv: no selector, the four selectors of main(), an unknown one.
Argvs ==
  { << "container.py" >> }
  \cup { << "container.py", a >> : a \in { "shell", "run", "memory", "help", "bogus" } }

\* Variant of privileged: main() without the check of lines 301-304.
privileged_unchecked(uid) == TRUE

\* main, line 301: `os.geteuid() != 0` is the refusal.
privileged(uid) == uid = 0

\* main, line 313: cmd = sys.argv[1] if len(sys.argv) > 1 else "help"
selected(av) == IF Len(av) > 1 THEN av[2] ELSE "help"

\* main, lines 306-311: the selectors that run a container, with the
\* configurations their demo functions build.
demo_configs(cmd) ==
  CASE cmd = "shell" -> { demo_interactive_config }
    [] cmd = "run" -> { demo_command_config }
    [] cmd = "memory" -> { demo_memory_limit_config(py) : py \in BOOLEAN }
    [] OTHER -> {}

\* main, lines 301-304: without privilege, print and sys.exit(1).
Main_privilege ==
  /\ main_pc = "start"
  /\ IF privileged(euid)
       THEN main_pc' = "dispatch" /\ exit_code' = exit_code
       ELSE main_pc' = "exited" /\ exit_code' = 1
  /\ alive' = [alive EXCEPT ![main_pid] = privileged(euid)]
  /\ UNCHANGED << hostFiles, cgroupfs, procCg, tmpfs, nextDir, instVars,
                  euid, argv >>

\* main, lines 313-316, a demo selector: the demo function builds its
\* configuration and calls Container(config).run().
Main_demo ==
  /\ main_pc = "dispatch"
  /\ \E c \in demo_configs(selected(argv)) :
       /\ config' = [config EXCEPT ![main_inst] = c]
       /\ pid' = [pid EXCEPT ![main_inst] = main_pid]
       /\ pc' = [pc EXCEPT ![main_inst] = "cg_create"]
  /\ main_pc' = "demo"
  /\ UNCHANGED << hostVars, self_rootfs, exc, status, ret, raised, child,
                  childCg, log, adoptedFrom, euid, argv, exit_code >>

\* main, lines 315-320, "help" or an unknown selector: print_help, and
\* sys.exit(1) for the unknown one.
Main_help ==
  /\ main_pc = "dispatch"
  /\ demo_configs(selected(argv)) = {}
  /\ main_pc' = "exited"
  /\ exit_code' = IF selected(argv) = "help" THEN 0 ELSE 1
  /\ alive' = [alive EXCEPT ![main_pid] = FALSE]
  /\ UNCHANGED << hostFiles, cgroupfs, procCg, tmpfs, nextDir, instVars,
                  euid, argv >>

\* The demo function returns (it drops run()'s value) and main() ends: the
\* process exits with 0, or with 1 when an exception left run().
Main_return ==
  /\ main_pc = "demo"
  /\ pc[main_inst] = "done"
  /\ main_pc' = "exited"
  /\ exit_code' = IF raised[main_inst] = "none" THEN 0 ELSE 1
  /\ alive' = [alive EXCEPT ![main_pid] = FALSE]
  /\ UNCHANGED << hostFiles, cgroupfs, procCg, tmpfs, nextDir, instVars,
                  euid, argv >>

MainInit ==
  /\ hostFiles \in HostImages
  /\ cgroupfs = << >>
  /\ procCg = [ p \in Pids |-> RootCg ]
  /\ alive = [ p \in Pids |-> TRUE ]
  /\ tmpfs = << >>
  /\ nextDir = 1
  /\ pc = [ i \in Insts |-> "idle" ]
  /\ config = [ i \in Insts |-> demo_interactive_config ]
  /\ pid = [ i \in Insts |-> main_pid ]
  /\ self_rootfs = [ i \in Insts |-> None ]
  /\ exc = [ i \in Insts |-> "none" ]
  /\ status = [ i \in Insts |-> NoValue ]
  /\ ret = [ i \in Insts |-> NoValue ]
  /\ raised = [ i \in Insts |-> "none" ]
  /\ child = [ i \in Insts |-> "none" ]
  /\ childCg = [ i \in Insts |-> RootCg ]
  /\ log = [ i \in Insts |-> << >> ]
  /\ adoptedFrom = [ i \in Insts |-> 0 ]
  /\ main_pc = "start"
  /\ euid \in Euids
  /\ argv \in Argvs
  /\ exit_code = NoValue

MainNext ==
  \/ Main_privilege
  \/ Main_demo
  \/ Main_help
  \/ Main_return
  \/ RunSteps(main_inst)

MainSpec == MainInit /\ [][MainNext]_vars

\* ----------------------------------------------- CGroupManager.create alone
\* CGroupManager.create(memory_mb, cpu_percent) called with arbitrary limits.
MaxMemoryMb == 40
MaxCpuPercent == 110

LimitConfigs ==
  { [name |-> "demo", memory_mb |-> m, cpu_percent |-> c, command |-> "/bin/sh"] :
      m \in 0..MaxMemoryMb, c \in 0..MaxCpuPercent }

LimitInit ==
  /\ hostFiles = {}
  /\ cgroupfs = << >>
  /\ procCg = [ p \in Pids |-> RootCg ]
  /\ alive = [ p \in Pids |-> TRUE ]
  /\ tmpfs = << >>
  /\ nextDir = 1
  /\ pc = [ i \in Insts |-> IF i = main_inst THEN "api" ELSE "idle" ]
  /\ \E c \in LimitConfigs : config = [ i \in Insts |-> c ]
  /\ pid = [ i \in Insts |-> main_pid ]
  /\ self_rootfs = [ i \in Insts |-> None ]
  /\ exc = [ i \in Insts |-> "none" ]
  /\ status = [ i \in Insts |-> NoValue ]
  /\ ret = [ i \in Insts |-> NoValue ]
  /\ raised = [ i \in Insts |-> "none" ]
  /\ child = [ i \in Insts |-> "none" ]
  /\ childCg = [ i \in Insts |-> RootCg ]
  /\ log = [ i \in Insts |-> << >> ]
  /\ adoptedFrom = [ i \in Insts |-> 0 ]
  /\ NoMain

LimitNext ==
  \E i \in Insts :
    \/ Api_cgroup_create(i)
    \/ Api_cgroup_cleanup(i)

LimitSpec == LimitInit /\ [][LimitNext]_vars

\* ================================================================ claims
Called(i, op) == \E k \in 1..Len(log[i]) : log[i][k] = op
Returned(i) == pc[i] = "done"
CleanupOps == { "cgroup.cleanup", "rootfs.cleanup" }

\* The step of the try block that run i executed last.
LastTryOp(i) ==
  LET tries == SelectSeq(log[i], LAMBDA op : op \notin CleanupOps)
  IN  IF tries = << >> THEN "" ELSE Last(tries)

\* The group directory run i created or took over still exists.
GroupOfRunExists(i) ==
  /\ config[i].name \in DOMAIN cgroupfs
  /\ cgroupfs[config[i].name].creator \in { i, adoptedFrom[i] }

\* The temporary directory run i registered in self.rootfs still exists.
RootfsOfRunExists(i) == self_rootfs[i] # None /\ self_rootfs[i] \in DOMAIN tmpfs

\* C1: every run() that was called reaches CLEANED, whatever steps 1-4 did
\* (success, failure, interruption); when it returns, CGroupManager.cleanup()
\* and RootFSManager.cleanup() have both been carried out, and no exception
\* has left run().
C1_EventuallyCleaned ==
  /\ \A i \in Insts : Active(i) ~> Returned(i)
  /\ [](\A i \in Insts :
          Returned(i) => /\ Called(i, "cgroup.cleanup")
                         /\ Called(i, "rootfs.cleanup")
                         /\ raised[i] = "none")

\* C1 witness: a run interrupted while waiting on the launched process has
\* returned after both cleanups.
C1_Witness ==
  \E i \in Insts :
    /\ Returned(i)
    /\ exc[i] = "KeyboardInterrupt"
    /\ LastTryOp(i) = "wait"
    /\ Called(i, "cgroup.cleanup") /\ Called(i, "rootfs.cleanup")

\* C2 (as claimed): once run() has reached CLEANED, the group directory of
\* the run and the rootfs directory of the run are absent from the host.
C2_AbsentAfterCleaned ==
  \A i \in Insts : Returned(i) => ~GroupOfRunExists(i) /\ ~RootfsOfRunExists(i)

\* C3: a returned run() returns the launcher's exit status when the launched
\* process terminated, 130 when the wait was interrupted, 1 when a step of
\* the try block raised a failure; no exception leaves run().
C3_Outcome ==
  \A i \in Insts :
    Returned(i) =>
      /\ raised[i] = "none"
      /\ (LastTryOp(i) = "wait" /\ exc[i] = "none") =>
            ret[i] = status[i] /\ status[i] \in ExitCodes
      /\ (LastTryOp(i) = "wait" /\ exc[i] = "KeyboardInterrupt") => ret[i] = 130
      /\ exc[i] \in { "OSError", "RuntimeError", "FileNotFoundError" } => ret[i] = 1
      /\ exc[i] = "none" => LastTryOp(i) = "wait"

\* C3 witnesses: the three outcomes have been returned.
C3_Witness ==
  \E i \in Insts :
    /\ Returned(i) /\ LastTryOp(i) = "wait"
    /\ exc[i] = "KeyboardInterrupt" /\ ret[i] = 130

\* C4: the launch is reached only right after an add_process that succeeded,
\* add_process is never called after the launch, and the launched process is
\* forked inside the run's group.
C4_EnrollBeforeLaunch ==
  \A i \in Insts :
    /\ \A k \in 1..Len(log[i]) :
         log[i][k] = "launch" => k > 1 /\ log[i][k - 1] = "cgroup.add_process"
    /\ \A k, m \in 1..Len(log[i]) :
         (log[i][k] = "launch" /\ log[i][m] = "cgroup.add_process") => m < k
    /\ child[i] # "none" => childCg[i] = config[i].name

\* C4 witness: a process has been launched.
C4_Witness ==
  \E i \in Insts : child[i] = "running" /\ childCg[i] = config[i].name

SetupOps == { "cgroup.create", "rootfs.create" }
Failure(e) == e \in { "OSError", "RuntimeError", "FileNotFoundError" }

\* Run i ended its try block with a failure raised by group or rootfs setup.
SetupFailed(i) == Failure(exc[i]) /\ LastTryOp(i) \in SetupOps

\* C5 (as claimed): a failure in group setup or in rootfs setup aborts what
\* follows (no rootfs after a failed group create, no enrollment and no
\* launch), the cleanup step still runs and raises nothing, and when the
\* failed run has returned no group and no rootfs of it is left on the host.
C5_NoResidueAfterFailedSetup ==
  \A i \in Insts :
    SetupFailed(i) =>
      /\ ~Called(i, "cgroup.add_process") /\ ~Called(i, "launch")
      /\ child[i] = "none"
      /\ LastTryOp(i) = "cgroup.create" => ~Called(i, "rootfs.create")
      /\ Returned(i) =>
           /\ Called(i, "cgroup.cleanup") /\ Called(i, "rootfs.cleanup")
           /\ raised[i] = "none"
           /\ ~GroupOfRunExists(i)
           /\ ~RootfsOfRunExists(i)

NoBusyboxOnHost == \A k \in 1..Len(busybox_paths) : busybox_paths[k] \notin hostFiles

\* RootFSManager.create() of run i got as far as the busybox lookup and
\* ended there.
EndedAtBusyboxLookup(i) ==
  /\ pc[i] \in { "cleanup_cg", "cleanup_rootfs" }
  /\ LastTryOp(i) = "rootfs.create"
  /\ RootfsOfRunExists(i) /\ tmpfs[self_rootfs[i]] = 3

\* C6: on a host with no busybox at any search location, create() raises
\* the missing-busybox error when it reaches the lookup, run() then returns
\* 1, no run ever launches a process, and a returned run leaves neither its
\* group nor its rootfs behind.
C6_ScenarioD ==
  NoBusyboxOnHost =>
    \A i \in Insts :
      /\ ~Called(i, "launch") /\ child[i] = "none"
      /\ EndedAtBusyboxLookup(i) => exc[i] = "RuntimeError" /\ ret[i] = 1
      /\ Returned(i) =>
           /\ exc[i] = "RuntimeError" => ret[i] = 1 /\ LastTryOp(i) = "rootfs.create"
           /\ ret[i] \in { 1, 130 }
           /\ ~GroupOfRunExists(i)
           /\ ~RootfsOfRunExists(i)

\* C6 witness: Scenario D has run to its end.
C6_Witness ==
  /\ NoBusyboxOnHost
  /\ \E i \in Insts : Returned(i) /\ exc[i] = "RuntimeError" /\ ret[i] = 1

\* C7 (as claimed): CGroupManager.cleanup() is never invoked by a run whose
\* own process is alive and a member of the run's group.
C7_TeardownAfterMembersExit ==
  [][ \A i \in Insts :
        (pc[i] = "cleanup_cg" /\ pc'[i] # "cleanup_cg") =>
           ~( alive[pid[i]] /\ procCg[pid[i]] = config[i].name ) ]_vars

\* C8 (as claimed): a live process that is a member of a container group
\* stays a member of that group.
C8_MembershipNeverMigrated ==
  [][ \A p \in Pids :
        (alive[p] /\ alive'[p] /\ procCg[p] \in Names) => procCg'[p] = procCg[p] ]_vars

\* C9 (as claimed): CGroupManager.create never takes over a group directory
\* that an earlier run created.
C9_GroupNeverReused ==
  \A i \in Insts : adoptedFrom[i] = 0

\* C10: used on their own, in any order, CGroupManager.cleanup() and
\* RootFSManager.cleanup() raise nothing (before create, after a create that
\* failed part-way, with a live member in the group, a second time), and a
\* cleanup called right after the same cleanup changes nothing on the host.
C10_CleanupIdempotent ==
  /\ [](\A i \in Insts :
          (pc[i] = "api" /\ log[i] # << >> /\ Last(log[i]) \in CleanupOps)
             => raised[i] = "none")
  /\ [][ \A i \in Insts :
           (pc[i] = "api" /\ log[i] # << >> /\ Last(log[i]) \in CleanupOps
              /\ log'[i] = log[i])
             => (cgroupfs' = cgroupfs /\ tmpfs' = tmpfs /\ procCg' = procCg) ]_vars

\* C10 witness: cleanup has been called on a group that still has a live
\* member, and on a rootfs whose create failed part-way.
C10_Witness ==
  \E i \in Insts :
    /\ pc[i] = "api"
    /\ log[i] = << "cgroup.cleanup" >>
    /\ config[i].name \in DOMAIN cgroupfs
    /\ Members(config[i].name) # {}
    /\ raised[i] = "none"

\* Run i took a step: its call log grew.
Acts(i) == log'[i] # log[i]

\* The other runs that were started under a name different from run i's.
OthersOf(i) ==
  { j \in Insts : j # i /\ pc[j] # "idle" /\ config[j].name # config[i].name }

\* A step leaves the group directory of name n and its limit files as they are.
GroupUntouched(n) ==
  /\ (n \in DOMAIN cgroupfs') = (n \in DOMAIN cgroupfs)
  /\ n \in DOMAIN cgroupfs => cgroupfs'[n] = cgroupfs[n]

\* A step leaves the membership of group n as it is.
MembershipUntouched(n) ==
  { p \in Pids : alive'[p] /\ procCg'[p] = n } = Members(n)

\* A step leaves temporary directory d as it is.
DirUntouched(d) ==
  d \in DOMAIN tmpfs => d \in DOMAIN tmpfs' /\ tmpfs'[d] = tmpfs[d]

\* The limit files of run i's group hold the texts of run i's configuration.
OwnLimits(i) ==
  /\ config[i].name \in DOMAIN cgroupfs
  /\ cgroupfs[config[i].name].memory_max = memory_max_text(config[i].memory_mb)
  /\ cgroupfs[config[i].name].cpu_max = cpu_max_text(config[i].cpu_percent)

\* C11 (as claimed): among runs with distinct names, a step of one run
\* changes neither the group directory, nor the group membership, nor the
\* rootfs directory of another run; the rootfs directory a run registers is
\* new and registered by no other run; the process a run launches is forked
\* in the run's own group, which holds the run's own limits.
C11_NoCrossInstanceAccess ==
  [][ \A i \in Insts :
        Acts(i) =>
          /\ \A j \in OthersOf(i) :
               /\ GroupUntouched(config[j].name)
               /\ MembershipUntouched(config[j].name)
               /\ self_rootfs[j] # None => DirUntouched(self_rootfs[j])
          /\ self_rootfs'[i] # self_rootfs[i] =>
               /\ self_rootfs'[i] \notin DOMAIN tmpfs
               /\ \A j \in Insts \ {i} : self_rootfs[j] # self_rootfs'[i]
          /\ (child[i] = "none" /\ child'[i] = "running") =>
               childCg'[i] = config[i].name /\ OwnLimits(i) ]_vars

\* The launched process of run i was waited for to its end.
Completed(i) == Returned(i) /\ LastTryOp(i) = "wait" /\ exc[i] = "none"

\* C12 (as claimed): a run whose launched process ended with the status of an
\* out-of-memory kill, 137, returns 137, and when it has returned neither its
\* group nor its rootfs is left on the host.
C12_OomStatusPassedThrough ==
  \A i \in Insts :
    (Completed(i) /\ status[i] = 137) =>
      /\ ret[i] = 137
      /\ ~GroupOfRunExists(i)
      /\ ~RootfsOfRunExists(i)

\* C13 (as claimed): a run of demo_command's configuration whose launched
\* process was waited for to its end returns 0 and leaves neither its group
\* nor its rootfs on the host.
C13_ScenarioB ==
  \A i \in Insts :
    (Completed(i) /\ config[i] = demo_command_config) =>
      /\ ret[i] = 0
      /\ ~GroupOfRunExists(i)
      /\ ~RootfsOfRunExists(i)

\* The value a reader of a limit file gets from a decimal text: digits only,
\* no sign, no leading zero; -1 for any other text.
IsDigit(c) == \E d \in 0..9 : Digit(d) = c
DigitValue(c) == CHOOSE d \in 0..9 : Digit(d) = c

RECURSIVE DecimalOf(_)
DecimalOf(t) ==
  IF Len(t) = 1 THEN DigitValue(t[1])
  ELSE 10 * DecimalOf(SubSeq(t, 1, Len(t) - 1)) + DigitValue(t[Len(t)])

decimal_value(t) ==
  IF /\ t # << >>
     /\ \A k \in 1..Len(t) : IsDigit(t[k])
     /\ (Len(t) > 1 => t[1] # "0")
    THEN DecimalOf(t) ELSE -1

\* The last call of the manager was create(), and it returned normally.
CreateSucceeded(i) ==
  /\ pc[i] = "api"
  /\ log[i] = << "cgroup.create" >>
  /\ raised[i] = "none"

\* C14: after CGroupManager.create(memory_mb, cpu_percent) returned, the
\* group's memory.max is the decimal text whose value is the number of bytes
\* memory_mb * 1024 * 1024.
C14_MemoryMaxText ==
  \A i \in Insts :
    CreateSucceeded(i) =>
      /\ config[i].name \in DOMAIN cgroupfs
      /\ decimal_value(cgroupfs[config[i].name].memory_max)
           = config[i].memory_mb * 1048576

\* C14 witness: create() has written the ceiling of the largest memory_mb.
C14_Witness ==
  \E i \in Insts :
    /\ CreateSucceeded(i)
    /\ config[i].memory_mb = MaxMemoryMb
    /\ Len(cgroupfs[config[i].name].memory_max) = 8

\* The position of the blank in a cpu.max text, 0 when there is not exactly one.
BlankAt(t) ==
  LET bs == { k \in 1..Len(t) : t[k] = " " }
  IN  IF Cardinality(bs) = 1 THEN CHOOSE k \in bs : TRUE ELSE 0

\* C15: after CGroupManager.create(memory_mb, cpu_percent) returned, the
\* group's cpu.max is two decimal numbers separated by one blank: the quota
\* cpu_percent * 1000 and the period 100000; also for cpu_percent above 100.
C15_CpuMaxText ==
  \A i \in Insts :
    CreateSucceeded(i) =>
      /\ config[i].name \in DOMAIN cgroupfs
      /\ LET t == cgroupfs[config[i].name].cpu_max
             b == BlankAt(t)
         IN  /\ b > 1 /\ b < Len(t)
             /\ decimal_value(SubSeq(t, 1, b - 1)) = config[i].cpu_percent * 1000
             /\ decimal_value(SubSeq(t, b + 1, Len(t))) = 100000

\* C15 witness: create() has written the quota of a cpu_percent above 100.
C15_Witness ==
  \E i \in Insts :
    /\ CreateSucceeded(i)
    /\ config[i].cpu_percent > 100
    /\ Len(cgroupfs[config[i].name].cpu_max) = 13

\* C16: when main() is run by a caller that is not root, the process goes
\* from the privilege check straight to its exit with code 1: no group
\* directory and no temporary directory is ever created, and no
\* Container.run() is started.
C16_NoPrivilegeNoResource ==
  euid # 0 =>
    /\ main_pc \in { "start", "exited" }
    /\ main_pc = "exited" => exit_code = 1
    /\ cgroupfs = << >> /\ tmpfs = << >> /\ nextDir = 1
    /\ \A i \in Insts : pc[i] = "idle" /\ log[i] = << >>

\* C16 witness: an unprivileged caller asked for a demo and was refused.
C16_Witness ==
  /\ euid # 0
  /\ demo_configs(selected(argv)) # {}
  /\ main_pc = "exited"
  /\ exit_code = 1

\* RootFSManager.create() of run i installed busybox and was at the optional
\* shell step (_copy_bash) when it ended.
EndedAtShellStep(i) ==
  /\ LastTryOp(i) = "rootfs.create"
  /\ RootfsOfRunExists(i)
  /\ tmpfs[self_rootfs[i]] \in { 4, 5 }

\* C17 (as claimed): nothing that goes wrong in the optional shell step (the
\* copy of the shell, a missing ldd, the copy of a library) makes
\* RootFSManager.create() fail: a run that got as far as the shell step goes
\* on to enrollment.
C17_ShellStepNeverAborts ==
  \A i \in Insts :
    EndedAtShellStep(i) => ~Failure(exc[i]) /\ ret[i] # 1

\* The last call of the manager was RootFSManager.create(), and it returned.
RootfsCreateSucceeded(i) ==
  /\ pc[i] = "api"
  /\ log[i] = << "rootfs.create" >>
  /\ raised[i] = "none"

\* The files of bin/ that the symbolic links of bin/ resolve to.
LinkedExecutables(E) ==
  { "bin/" \o E[f].to : f \in { g \in DOMAIN E : E[g].kind = "symlink" } }

\* C18: after RootFSManager.create() returned, the rootfs has the seven
\* top-level directories, bin/ has a symbolic link for each command name,
\* every link resolves to the one installed multi-call executable
\* bin/busybox, and what was in the directory before the links were made is
\* still there unchanged.
C18_RootfsLayout ==
  \A i \in Insts :
    RootfsCreateSucceeded(i) =>
      /\ RootfsOfRunExists(i)
      /\ LET E == Entries(self_rootfs[i])
         IN  /\ \A t \in { "bin", "lib", "lib64", "proc", "tmp", "dev", "etc" } :
                  t \in DOMAIN E /\ E[t].kind = "dir"
             /\ \A c \in { "sh", "ls", "cat", "echo", "ps", "sleep",
                           "mkdir", "rm", "cp", "mv" } :
                  ("bin/" \o c) \in DOMAIN E /\ E["bin/" \o c].kind = "symlink"
             /\ LinkedExecutables(E) = { "bin/busybox" }
             /\ "bin/busybox" \in DOMAIN E /\ E["bin/busybox"].kind = "file"
             /\ \A f \in DOMAIN SkeletonEntries : E[f] = SkeletonEntries[f]

\* C18 witness: create() has returned on a host that also has the shell.
C18_Witness ==
  \E i \in Insts :
    /\ RootfsCreateSucceeded(i)
    /\ "bin/bash" \in DOMAIN Entries(self_rootfs[i])
    /\ "bin/sh" \in DOMAIN Entries(self_rootfs[i])

\* The command of run i names no executable of a rootfs that create() built
\* on this host.
Unresolvable(i) ==
  ~ \E f \in DOMAIN rootfs_entries(6) :
      rootfs_entries(6)[f].kind # "dir" /\ "/" \o f = config[i].command

\* C19: a run that launched a command its rootfs cannot resolve never ends in
\* the failure path (no failure is caught, the generic code 1 is not
\* returned); when the launch was waited for to its end, run() returns the
\* launched process's exit status, which is not 0.
C19_UnresolvedCommandIsExitStatus ==
  \A i \in Insts :
    (child[i] # "none" /\ Unresolvable(i)) =>
      /\ ~Failure(exc[i])
      /\ ret[i] # 1
      /\ Completed(i) => ret[i] = status[i] /\ ret[i] # 0

\* C19 witness: demo_command's command line, which names no file of the
\* rootfs, was launched and run() returned the status 127.
C19_Witness ==
  \E i \in Insts :
    /\ Completed(i) /\ Unresolvable(i)
    /\ config[i] = demo_command_config
    /\ ret[i] = 127

\* How many times run i made call op.
Count(i, op) == Cardinality({ k \in 1..Len(log[i]) : log[i][k] = op })

\* C20: a run launches at most once and makes each cleanup call at most
\* once, the group's before the rootfs's; once the group's cleanup was called
\* the rootfs's follows, whether or not the group directory could be removed;
\* a returned run has made both, as its last two calls.
C20_CleanupOnceInOrder ==
  \A i \in Insts :
    /\ Count(i, "launch") <= 1
    /\ Count(i, "cgroup.cleanup") <= 1
    /\ Count(i, "rootfs.cleanup") <= 1
    /\ Called(i, "rootfs.cleanup") =>
         /\ Len(log[i]) >= 2
         /\ log[i][Len(log[i])] = "rootfs.cleanup"
         /\ log[i][Len(log[i]) - 1] = "cgroup.cleanup"
    /\ (Called(i, "cgroup.cleanup") /\ ~Called(i, "rootfs.cleanup")) =>
         pc[i] = "cleanup_rootfs"
    /\ Returned(i) => Called(i, "rootfs.cleanup")

\* C20 witness: a run that launched has returned after both cleanups although
\* its group directory could not be removed.
C20_Witness ==
  \E i \in Insts :
    /\ Returned(i)
    /\ GroupOfRunExists(i)
    /\ Count(i, "launch") = 1
    /\ Count(i, "cgroup.cleanup") = 1
    /\ Count(i, "rootfs.cleanup") = 1

====
